---------------------------- MODULE Spec2Model ----------------------------
(***************************************************************************)
(* Observer pattern, trucking example (index.js / index.ts).               *)
(*                                                                         *)
(* Two specifications are given.                                           *)
(*   Spec     the demo program: the Driver "Ted Lasso" with its three      *)
(*            observers and the interactive askForStatusChange loop,       *)
(*            driven by input lines.                                       *)
(*   SpecLib  the Driver class on its own: any sequence of calls of Add,   *)
(*            Remove, ChangeStatus and Notify on a freshly constructed     *)
(*            Driver.                                                      *)
(*   SpecFail the same calls, with a listener whose Update throws.          *)
(*   SpecReentrant  the same calls, with listeners whose Update calls      *)
(*            Remove or Add on the Driver that notifies them.              *)
(*   SpecBoth the demo program of index.js and the demo program of         *)
(*            index.ts, run side by side on the same input lines.          *)
(***************************************************************************)
EXTENDS Integers, Sequences, FiniteSets, TLC

VARIABLES
    driver,             \* the Driver object: [name, status, listOfObservers]
    console,            \* the lines written by the handler that ran last
    calls,              \* the Update invocations made by that handler
    pc,                 \* the pending rl.question callback, or the end state
    availableStatuses,  \* the const captured by the pending new-status callback
    prompts,            \* number of rl.question calls made so far
    lines,              \* number of input lines consumed so far
    input,              \* the input line consumed last
    history,            \* SpecLib: the calls made on the Driver so far
    error,              \* the handler that ran last ended by an uncaught exception
    ts                  \* SpecBoth: the state of the TypeScript program

vars == <<driver, console, calls, pc, availableStatuses, prompts, lines, input,
          history, error, ts>>

-----------------------------------------------------------------------------
(* Bounds *)

\* SpecLib: number of method calls made on the Driver.
MaxOps == 4

\* Spec: number of input lines the user types.
MaxLines == 6

-----------------------------------------------------------------------------
(* Console output *)

Line(text, args) == [text |-> text, args |-> args]

UpdateHeader == Line("UPDATE: Status has been changed.", <<>>)

NotifyHeader == Line("Notify Observers:", <<>>)

Blank == Line("", <<>>)

InvalidStatusMessage == Line("Invalid status. Please try again.", <<>>)

GoodbyeMessage == Line("Thank you for confirming this driver's status. Goodbye.", <<>>)

PleaseAnswerMessage == Line("Please answer yes or no.", <<>>)

ContinueQuery == Line("Question: Has the driver status changed? (yes/no): ", <<>>)

NewStatusQuery == Line("Enter new status: ", <<>>)

-----------------------------------------------------------------------------
(* Observers *)

\* The observer objects the program creates; an observer is known by identity.
manager == "manager"

manager2 == "manager2"

dispatch == "dispatch"

Observers == {manager, manager2, dispatch}

\* An instance of the base class IDriverObserver, whose Update throws.
baseObserver == "baseObserver"

\* Listeners a caller of the Driver class may write: the Update of leaver
\* calls driver.Remove(this), the Update of recruiter calls
\* driver.Add(dispatch).
leaver == "leaver"

recruiter == "recruiter"

ClassOf(o) ==
    IF o = dispatch THEN "DispatchTeam"
    ELSE IF o = baseObserver THEN "IDriverObserver"
    ELSE IF o = leaver THEN "Leaver"
    ELSE IF o = recruiter THEN "Recruiter"
    ELSE "DriverManager"

NameOf(o) == IF o = manager THEN "Rebecca" ELSE IF o = manager2 THEN "Higgins" ELSE ""

\* DriverManager.Update
DriverManagerUpdate(o, d) == <<Line("Driver Manager", <<NameOf(o), d.name, d.status>>)>>

\* DispatchTeam.Update
DispatchTeamUpdate(o, d) == <<Line("Dispatch notified", <<d.name, d.status>>)>>

\* What a call of Update leaves: the driver, the lines written, and whether
\* it threw.
Updated(d, out, threw) == [driver |-> d, console |-> out, threw |-> threw]

-----------------------------------------------------------------------------
(* Array helpers, as the JavaScript built-ins compute them *)

RECURSIVE IndexOfFrom(_, _, _)
IndexOfFrom(list, x, i) ==
    IF i >= Len(list) THEN -1
    ELSE IF list[i + 1] = x THEN i
    ELSE IndexOfFrom(list, x, i + 1)

\* Array.prototype.indexOf: the 0-based index of the first match, or -1.
IndexOf(list, x) == IndexOfFrom(list, x, 0)

\* Array.prototype.splice(index, deleteCount), the array that remains.
Splice(list, index, deleteCount) ==
    SubSeq(list, 1, index) \o SubSeq(list, index + deleteCount + 1, Len(list))

\* Array.prototype.includes.
Includes(list, x) == \E i \in 1..Len(list) : list[i] = x

\* Array.prototype.filter((s) => s !== x).
FilterNot(list, x) == SelectSeq(list, LAMBDA s : s # x)

RECURSIVE Join(_, _)
\* Array.prototype.join, as the sequence of pieces of the resulting string.
Join(list, sep) ==
    IF Len(list) = 0 THEN <<>>
    ELSE IF Len(list) = 1 THEN <<list[1]>>
    ELSE <<list[1], sep>> \o Join(Tail(list), sep)

-----------------------------------------------------------------------------
(* Driver *)

DriverName == "Ted Lasso"

\* Driver.constructor
NewDriver(name) == [name |-> name, status |-> "Available", listOfObservers |-> <<>>]

\* A Driver.Add that refuses an observer that is already registered.
AddUnlessPresent(d, observer) ==
    IF Includes(d.listOfObservers, observer) THEN d
    ELSE [d EXCEPT !.listOfObservers = Append(@, observer)]

\* Driver.Add
Add(d, observer) == [d EXCEPT !.listOfObservers = Append(@, observer)]

\* A Driver.Remove that splices without testing the index: splice(-1, 1)
\* removes the last element.
RemoveUnchecked(d, observer) ==
    LET index == IndexOf(d.listOfObservers, observer)
        at == IF index > -1 THEN index ELSE Len(d.listOfObservers) - 1
    IN  IF Len(d.listOfObservers) = 0 THEN d
        ELSE [d EXCEPT !.listOfObservers = Splice(@, at, 1)]

\* A Driver.Remove that removes the last occurrence (lastIndexOf).
RemoveLastOccurrence(d, observer) ==
    LET list == d.listOfObservers
        found == {i \in 1..Len(list) : list[i] = observer}
    IN  IF found = {} THEN d
        ELSE LET k == CHOOSE i \in found : \A j \in found : j <= i
             IN  [d EXCEPT !.listOfObservers = Splice(@, k - 1, 1)]

\* A Driver.Remove that splices one place too far.
RemoveOffByOne(d, observer) ==
    LET index == IndexOf(d.listOfObservers, observer)
    IN  IF index > -1
        THEN [d EXCEPT !.listOfObservers = Splice(@, index + 1, 1)]
        ELSE d

\* Driver.Remove
Remove(d, observer) ==
    LET index == IndexOf(d.listOfObservers, observer)
    IN  IF index > -1
        THEN [d EXCEPT !.listOfObservers = Splice(@, index, 1)]
        ELSE d

\* observer.Update(driver), dispatched on the observer's class.
Update(o, d) ==
    CASE ClassOf(o) = "DriverManager" -> Updated(d, DriverManagerUpdate(o, d), FALSE)
      [] ClassOf(o) = "DispatchTeam" -> Updated(d, DispatchTeamUpdate(o, d), FALSE)
      [] ClassOf(o) = "IDriverObserver" -> Updated(d, <<>>, TRUE)
      [] ClassOf(o) = "Leaver" -> Updated(Remove(d, o), <<>>, FALSE)
      [] ClassOf(o) = "Recruiter" -> Updated(Add(d, dispatch), <<>>, FALSE)

\* The result of a handler that wrote nothing and called no observer.
Quiet(d) == [driver |-> d, console |-> <<>>, calls |-> <<>>, threw |-> FALSE]

\* What Notify has when its loop starts.
NotifyStart(d) ==
    [driver |-> d, console |-> <<UpdateHeader, NotifyHeader>>, calls |-> <<>>,
     threw |-> FALSE]

RECURSIVE NotifyLoop(_, _, _)
\* The for...of loop of Driver.Notify, from index i on. The array iterator
\* reads the length and the element of the array as it is at each step; an
\* exception thrown by Update ends the loop and leaves Notify.
NotifyLoop(d, i, acc) ==
    IF i >= Len(d.listOfObservers) THEN [acc EXCEPT !.driver = d]
    ELSE LET observer == d.listOfObservers[i + 1]
             u == Update(observer, d)
             next == [acc EXCEPT !.console = @ \o u.console,
                                 !.calls = Append(@, [observer |-> observer,
                                                      status |-> d.status])]
         IN  IF u.threw
             THEN [next EXCEPT !.driver = u.driver, !.threw = TRUE]
             ELSE NotifyLoop(u.driver, i + 1, next)

\* A Driver.Notify whose loop starts at the second observer.
NotifySkipFirst(d) == NotifyLoop(d, 1, NotifyStart(d))

\* Driver.Notify
Notify(d) == NotifyLoop(d, 0, NotifyStart(d))

\* A Driver.ChangeStatus that notifies before it writes the status.
ChangeStatusNotifyFirst(d, newStatus) ==
    [Notify(d) EXCEPT !.driver = [d EXCEPT !.status = newStatus]]

\* A Driver.ChangeStatus that returns early when the status is the same.
ChangeStatusIfDifferent(d, newStatus) ==
    IF d.status = newStatus THEN Quiet(d)
    ELSE Notify([d EXCEPT !.status = newStatus])

\* A Driver.ChangeStatus that puts the old status back when Notify throws.
ChangeStatusRollsBack(d, newStatus) ==
    LET r == Notify([d EXCEPT !.status = newStatus])
    IN  IF r.threw THEN [r EXCEPT !.driver.status = d.status] ELSE r

\* Driver.ChangeStatus
ChangeStatus(d, newStatus) == Notify([d EXCEPT !.status = newStatus])

-----------------------------------------------------------------------------
(* The Driver class on its own: SpecLib *)

\* The values passed to ChangeStatus: the default status, another allowed
\* status and a value outside the allowed set.
LibStatuses == {"Available", "En Route", "InvalidStatus"}

Call(name, arg) == [name |-> name, arg |-> arg]

InitLib ==
    /\ driver = NewDriver(DriverName)
    /\ console = <<>>
    /\ calls = <<>>
    /\ pc = "NotStarted"
    /\ availableStatuses = <<>>
    /\ prompts = 0
    /\ lines = 0
    /\ input = [answer |-> <<>>, newStatus |-> ""]
    /\ history = <<>>
    /\ error = FALSE
    /\ ts = [pc |-> "NotStarted"]

\* The handler's result becomes the state; the call is recorded.
LibStep(result, call) ==
    /\ Len(history) < MaxOps
    /\ driver' = result.driver
    /\ console' = result.console
    /\ calls' = result.calls
    /\ history' = Append(history, call)
    /\ error' = result.threw
    /\ UNCHANGED <<pc, availableStatuses, prompts, lines, input, ts>>

LibAdd == \E o \in Observers : LibStep(Quiet(Add(driver, o)), Call("Add", o))

LibRemove == \E o \in Observers : LibStep(Quiet(Remove(driver, o)), Call("Remove", o))

LibChangeStatus ==
    \E s \in LibStatuses : LibStep(ChangeStatus(driver, s), Call("ChangeStatus", s))

LibNotify == LibStep(Notify(driver), Call("Notify", ""))

NextLib == LibAdd \/ LibRemove \/ LibChangeStatus \/ LibNotify

SpecLib == InitLib /\ [][NextLib]_vars

\* SpecFail: the listeners registered are two of the program's and an
\* instance of the base class, whose Update throws.
FailObservers == {manager, dispatch, baseObserver}

FailAdd == \E o \in FailObservers : LibStep(Quiet(Add(driver, o)), Call("Add", o))

FailRemove == \E o \in FailObservers : LibStep(Quiet(Remove(driver, o)), Call("Remove", o))

NextFail == FailAdd \/ FailRemove \/ LibChangeStatus \/ LibNotify

SpecFail == InitLib /\ [][NextFail]_vars

\* SpecReentrant: the listeners registered are one of the program's, one
\* that unregisters itself in its Update and one that registers dispatch
\* in its Update.
ReentrantObservers == {manager, leaver, recruiter}

ReentrantAdd ==
    \E o \in ReentrantObservers : LibStep(Quiet(Add(driver, o)), Call("Add", o))

ReentrantRemove ==
    \E o \in ReentrantObservers : LibStep(Quiet(Remove(driver, o)), Call("Remove", o))

NextReentrant == ReentrantAdd \/ ReentrantRemove \/ LibChangeStatus \/ LibNotify

SpecReentrant == InitLib /\ [][NextReentrant]_vars

\* Number of occurrences of x in list.
Count(list, x) == Cardinality({i \in 1..Len(list) : list[i] = x})

\* The call made last.
LastCall == history[Len(history)]

\* The observers invoked by the handler that ran last, in order.
Invoked == [i \in 1..Len(calls) |-> calls[i].observer]

\* Number of notification rounds the handler that ran last went through.
Rounds == Count(console, UpdateHeader)

\* The arguments of the Add calls made so far, in order.
Registered == 
    LET adds == SelectSeq(history, LAMBDA c : c.name = "Add")
    IN  [i \in 1..Len(adds) |-> adds[i].arg]

\* No Remove call has been made.
OnlyAdds == \A i \in 1..Len(history) : history[i].name # "Remove"

-----------------------------------------------------------------------------
(* The demo program: Spec *)

\* const statuses
statuses == <<"Available", "En Route", "Stopped", "Delivered">>

\* An input line is kept as its sequence of characters where the program
\* looks at the characters (the yes/no answer), and as a string where it
\* only compares the whole line (the new status).
Yes == <<"y", "e", "s">>

Y == <<"y">>

No == <<"n", "o">>

N == <<"n">>

\* The answers typed at the continuation prompt.
Answers ==
    { Yes, Y, <<"Y", "E", "S">>, <<"Y">>, <<"Y", "e", "s">>,
      No, N, <<"N", "O">>, <<"N">>, <<"N", "o">>, <<"n", "O">>,
      <<>>, <<"o", "k">>, <<"y", "e", "s", " ">>, <<"n", "o", "p", "e">> }

\* The lines typed at the new-status prompt.
StatusLines ==
    { "Available", "En Route", "Stopped", "Delivered",
      "InvalidStatus", "available", "Stopped ", "" }

\* String.prototype.toLowerCase on one character.
LowerChar(c) ==
    CASE c = "Y" -> "y"
      [] c = "E" -> "e"
      [] c = "S" -> "s"
      [] c = "N" -> "n"
      [] c = "O" -> "o"
      [] OTHER -> c

\* String.prototype.toLowerCase
ToLowerCase(str) == [i \in 1..Len(str) |-> LowerChar(str[i])]

\* The pieces of statusList, the text shown in the new-status question.
StatusList(available) ==
    IF Len(available) = 1 THEN <<available[1]>>
    ELSE Join(SubSeq(available, 1, Len(available) - 1), ", ")
         \o <<", or ", available[Len(available)]>>

\* What one call of askForStatusChange writes and asks.
AskForStatusChange(d) == <<Line("Current driver status", <<d.status>>), ContinueQuery>>

\* The result of a callback: the driver, what was written, the Update
\* invocations made, the next pending callback, the captured const, and
\* whether a question was asked.
Result(d, out, updates, next, available, asked) ==
    [driver |-> d, console |-> out, calls |-> updates, pc |-> next,
     availableStatuses |-> available, asked |-> asked, threw |-> FALSE]

\* A no-branch that asks again instead of closing.
AnswerNoAsksAgain(d) ==
    Result(d, <<GoodbyeMessage>> \o AskForStatusChange(d), <<>>,
           "AwaitingContinue", <<>>, 1)

\* The no-branch of the continuation callback.
AnswerNo(d) == Result(d, <<GoodbyeMessage>>, <<>>, "Closed", <<>>, 0)

\* A yes-branch that offers every status, the current one included.
AnswerYesNoFilter(d) ==
    Result(d, <<Line("Question: What is the new status?", StatusList(statuses)),
                NewStatusQuery>>,
           <<>>, "AwaitingNewStatus", statuses, 1)

\* The yes-branch of the continuation callback.
AnswerYes(d) ==
    LET available == FilterNot(statuses, d.status)
    IN  Result(d, <<Line("Question: What is the new status?", StatusList(available)),
                    NewStatusQuery>>,
               <<>>, "AwaitingNewStatus", available, 1)

\* A continuation callback that takes every answer other than yes for no.
ContinueCallbackElseNo(d, answer) ==
    IF ToLowerCase(answer) = Yes \/ ToLowerCase(answer) = Y THEN AnswerYes(d)
    ELSE AnswerNo(d)

\* The callback of the continuation question.
ContinueCallback(d, answer) ==
    IF ToLowerCase(answer) = Yes \/ ToLowerCase(answer) = Y THEN AnswerYes(d)
    ELSE IF ToLowerCase(answer) = No \/ ToLowerCase(answer) = N THEN AnswerNo(d)
    ELSE Result(d, <<PleaseAnswerMessage>> \o AskForStatusChange(d), <<>>,
                "AwaitingContinue", <<>>, 1)

\* An accepting branch that asks the next question before it changes the
\* status.
AcceptStatusAsksFirst(d, newStatus) ==
    LET changed == ChangeStatus(d, newStatus)
    IN  Result(changed.driver,
               AskForStatusChange(d) \o <<Blank>> \o changed.console \o <<Blank>>,
               changed.calls, "AwaitingContinue", <<>>, 1)

\* The accepting branch of the new-status callback.
\* An exception out of ChangeStatus leaves the callback uncaught.
AcceptStatus(d, newStatus) ==
    LET changed == ChangeStatus(d, newStatus)
    IN  IF changed.threw
        THEN [Result(changed.driver, <<Blank>> \o changed.console, changed.calls,
                     "Crashed", <<>>, 0) EXCEPT !.threw = TRUE]
        ELSE Result(changed.driver,
                    <<Blank>> \o changed.console \o <<Blank>>
                        \o AskForStatusChange(changed.driver),
                    changed.calls, "AwaitingContinue", <<>>, 1)

\* A rejecting branch that asks for the new status again.
RejectStatusAsksStatusAgain(d, available) ==
    Result(d, <<InvalidStatusMessage, NewStatusQuery>>, <<>>,
           "AwaitingNewStatus", available, 1)

\* A rejecting branch that resets the driver to the default status.
RejectStatusResets(d, available) ==
    Result([d EXCEPT !.status = "Available"],
           <<InvalidStatusMessage>> \o AskForStatusChange(d), <<>>,
           "AwaitingContinue", <<>>, 1)

\* The rejecting branch of the new-status callback.
RejectStatus(d, available) ==
    Result(d, <<InvalidStatusMessage>> \o AskForStatusChange(d), <<>>,
           "AwaitingContinue", <<>>, 1)

\* A validation that accepts every line.
ValidAlways(available, newStatus) == TRUE

\* The validation of the new status: availableStatuses.includes(newStatus).
Valid(available, newStatus) == Includes(available, newStatus)

\* The callback of the new-status question.
NewStatusCallback(d, available, newStatus) ==
    IF Valid(available, newStatus) THEN AcceptStatus(d, newStatus)
    ELSE RejectStatus(d, available)

-----------------------------------------------------------------------------
(* The TypeScript program (index.ts) *)

\* Driver.constructor
TsNewDriver(name) == [name |-> name, status |-> "Available", listOfObservers |-> <<>>]

\* Driver.Add
TsAdd(d, observer) == [d EXCEPT !.listOfObservers = Append(@, observer)]

\* DriverManager.Update
TsDriverManagerUpdate(o, d) ==
    <<Line("Driver Manager", <<NameOf(o), d.name, d.status>>)>>

\* DispatchTeam.Update
TsDispatchTeamUpdate(o, d) == <<Line("Dispatch notified", <<d.name, d.status>>)>>

\* observer.Update(this): the two classes that implement IDriverObserver.
TsUpdate(o, d) ==
    CASE ClassOf(o) = "DriverManager" -> TsDriverManagerUpdate(o, d)
      [] ClassOf(o) = "DispatchTeam" -> TsDispatchTeamUpdate(o, d)

RECURSIVE TsNotifyLoop(_, _, _)
\* The for...of loop of Driver.Notify, from index i on.
TsNotifyLoop(d, i, acc) ==
    IF i >= Len(d.listOfObservers) THEN acc
    ELSE LET observer == d.listOfObservers[i + 1]
         IN  TsNotifyLoop(d, i + 1,
                 [acc EXCEPT !.console = @ \o TsUpdate(observer, d),
                             !.calls = Append(@, [observer |-> observer,
                                                  status |-> d.status])])

\* Driver.Notify
TsNotify(d) ==
    TsNotifyLoop(d, 0,
        [driver |-> d,
         console |-> <<Line("UPDATE: Status has been changed.", <<>>),
                       Line("Notify Observers:", <<>>)>>,
         calls |-> <<>>, threw |-> FALSE])

\* A Driver.ChangeStatus that notifies before it writes the status.
TsChangeStatusNotifyFirst(d, newStatus) ==
    [TsNotify(d) EXCEPT !.driver = [d EXCEPT !.status = newStatus]]

\* Driver.ChangeStatus
TsChangeStatus(d, newStatus) == TsNotify([d EXCEPT !.status = newStatus])

\* const statuses: string[]
TsStatuses == <<"Available", "En Route", "Stopped", "Delivered">>

\* const statusList: string
TsStatusList(available) ==
    IF Len(available) = 1 THEN <<available[1]>>
    ELSE Join(SubSeq(available, 1, Len(available) - 1), ", ")
         \o <<", or ", available[Len(available)]>>

\* What one call of askForStatusChange writes and asks.
TsAskForStatusChange(d) ==
    << Line("Current driver status", <<d.status>>),
       Line("Question: Has the driver status changed? (yes/no): ", <<>>) >>

\* The callback of the continuation question.
TsContinueCallback(d, answer) ==
    IF ToLowerCase(answer) = <<"y", "e", "s">> \/ ToLowerCase(answer) = <<"y">>
    THEN LET available == FilterNot(TsStatuses, d.status)
         IN  Result(d, << Line("Question: What is the new status?",
                               TsStatusList(available)),
                          Line("Enter new status: ", <<>>) >>,
                    <<>>, "AwaitingNewStatus", available, 1)
    ELSE IF ToLowerCase(answer) = <<"n", "o">> \/ ToLowerCase(answer) = <<"n">>
    THEN Result(d, <<Line("Thank you for confirming this driver's status. Goodbye.",
                          <<>>)>>,
                <<>>, "Closed", <<>>, 0)
    ELSE Result(d, <<Line("Please answer yes or no.", <<>>)>> \o TsAskForStatusChange(d),
                <<>>, "AwaitingContinue", <<>>, 1)

\* The callback of the new-status question.
TsNewStatusCallback(d, available, newStatus) ==
    IF Includes(available, newStatus)
    THEN LET changed == TsChangeStatus(d, newStatus)
         IN  Result(changed.driver,
                    <<Line("", <<>>)>> \o changed.console \o <<Line("", <<>>)>>
                        \o TsAskForStatusChange(changed.driver),
                    changed.calls, "AwaitingContinue", <<>>, 1)
    ELSE Result(d, <<Line("Invalid status. Please try again.", <<>>)>>
                       \o TsAskForStatusChange(d),
                <<>>, "AwaitingContinue", <<>>, 1)

\* The script up to its last line.
TsStartup == TsAdd(TsAdd(TsAdd(TsNewDriver("Ted Lasso"), manager), manager2), dispatch)

\* The state of the TypeScript program when its script has run.
TsInit ==
    [driver |-> TsStartup,
     console |-> <<Line("- Observers added to driver", <<>>)>>
                     \o TsAskForStatusChange(TsStartup),
     calls |-> <<>>, pc |-> "AwaitingContinue", availableStatuses |-> <<>>,
     prompts |-> 1, error |-> FALSE]

\* The state of the TypeScript program after a callback.
TsAfter(t, result) ==
    [driver |-> result.driver, console |-> result.console, calls |-> result.calls,
     pc |-> result.pc, availableStatuses |-> result.availableStatuses,
     prompts |-> t.prompts + result.asked, error |-> result.threw]

\* The input ends while a question of the TypeScript program is pending.
TsInputEnds(t) ==
    [t EXCEPT !.pc = "InputEnded", !.console = <<>>, !.calls = <<>>,
              !.availableStatuses = <<>>]

-----------------------------------------------------------------------------
(* The demo program, started *)

\* A script that leaves out driver.Add(manager2).
StartupWithoutManager2 == Add(Add(NewDriver(DriverName), manager), dispatch)

\* The script up to its last line: the driver with its three observers.
Startup == Add(Add(Add(NewDriver(DriverName), manager), manager2), dispatch)

Init ==
    /\ driver = Startup
    /\ console = <<Line("- Observers added to driver", <<>>)>> \o AskForStatusChange(Startup)
    /\ calls = <<>>
    /\ pc = "AwaitingContinue"
    /\ availableStatuses = <<>>
    /\ prompts = 1
    /\ lines = 0
    /\ input = [answer |-> <<>>, newStatus |-> ""]
    /\ history = <<>>
    /\ error = FALSE
    /\ ts = TsInit

\* One input line is consumed and the pending callback runs to its end.
Step(result, line) ==
    /\ lines < MaxLines
    /\ driver' = result.driver
    /\ console' = result.console
    /\ calls' = result.calls
    /\ pc' = result.pc
    /\ availableStatuses' = result.availableStatuses
    /\ prompts' = prompts + result.asked
    /\ lines' = lines + 1
    /\ input' = line
    /\ error' = result.threw
    /\ UNCHANGED history

AnswerContinue ==
    /\ pc = "AwaitingContinue"
    /\ \E answer \in Answers :
           Step(ContinueCallback(driver, answer), [answer |-> answer, newStatus |-> ""])
    /\ UNCHANGED ts

AnswerNewStatus ==
    /\ pc = "AwaitingNewStatus"
    /\ \E newStatus \in StatusLines :
           Step(NewStatusCallback(driver, availableStatuses, newStatus),
                [answer |-> <<>>, newStatus |-> newStatus])
    /\ UNCHANGED ts

\* The input ends while a question is pending: its callback never runs.
InputEnds ==
    /\ pc \in {"AwaitingContinue", "AwaitingNewStatus"}
    /\ pc' = "InputEnded"
    /\ console' = <<>>
    /\ calls' = <<>>
    /\ availableStatuses' = <<>>
    /\ UNCHANGED <<driver, prompts, lines, input, history, error>>

InputClosed == InputEnds /\ UNCHANGED ts

Next == AnswerContinue \/ AnswerNewStatus \/ InputClosed

Spec == Init /\ [][Next]_vars

\* SpecBoth: the two programs are started and read the same input lines,
\* each line going to the callback that is pending in each program.
BothAnswerContinue ==
    /\ pc = "AwaitingContinue"
    /\ ts.pc = "AwaitingContinue"
    /\ \E answer \in Answers :
           /\ Step(ContinueCallback(driver, answer),
                   [answer |-> answer, newStatus |-> ""])
           /\ ts' = TsAfter(ts, TsContinueCallback(ts.driver, answer))

BothAnswerNewStatus ==
    /\ pc = "AwaitingNewStatus"
    /\ ts.pc = "AwaitingNewStatus"
    /\ \E newStatus \in StatusLines :
           /\ Step(NewStatusCallback(driver, availableStatuses, newStatus),
                   [answer |-> <<>>, newStatus |-> newStatus])
           /\ ts' = TsAfter(ts, TsNewStatusCallback(ts.driver, ts.availableStatuses,
                                                    newStatus))

BothInputClosed ==
    /\ InputEnds
    /\ ts.pc \in {"AwaitingContinue", "AwaitingNewStatus"}
    /\ ts' = TsInputEnds(ts)

NextBoth == BothAnswerContinue \/ BothAnswerNewStatus \/ BothInputClosed

SpecBoth == Init /\ [][NextBoth]_vars

-----------------------------------------------------------------------------
(* Helpers of the properties *)

Range(seq) == {seq[i] : i \in 1..Len(seq)}

RECURSIVE Dedup(_)
\* seq without the later repetitions of its elements.
Dedup(seq) ==
    IF seq = <<>> THEN <<>>
    ELSE LET front == SubSeq(seq, 1, Len(seq) - 1)
             last == seq[Len(seq)]
         IN  IF last \in Range(front) THEN Dedup(front)
             ELSE Append(Dedup(front), last)

RECURSIVE Outstanding(_, _)
\* The registrations of o that the calls of h leave: an Add makes one, a
\* Remove takes one away when there is one.
Outstanding(h, o) ==
    IF h = <<>> THEN 0
    ELSE LET before == Outstanding(SubSeq(h, 1, Len(h) - 1), o)
             c == h[Len(h)]
         IN  IF c = Call("Add", o) THEN before + 1
             ELSE IF c = Call("Remove", o) /\ before > 0 THEN before - 1
             ELSE before

\* o was added and, after its last Add, removed.
Unregistered(o) ==
    \E i, j \in 1..Len(history) :
        /\ i < j
        /\ history[i] = Call("Add", o)
        /\ history[j] = Call("Remove", o)
        /\ \A k \in j..Len(history) : history[k] # Call("Add", o)

\* The step is the call c on the Driver (SpecLib).
Calls(c) == history' = Append(history, c)

\* The last call of SpecLib was a call of the method called name.
Called(name) == history # <<>> /\ LastCall.name = name

\* The step consumes an input line (Spec).
ConsumesLine == lines' = lines + 1

-----------------------------------------------------------------------------
(* C1 *)

\* C1, as stated: after Add calls only, Notify invokes the Update handler of
\* each registered listener exactly once, in the order of registration.
C1_EachListenerOnce == (Called("Notify") /\ OnlyAdds) => Invoked = Dedup(Registered)

\* C1, amended: after Add calls only, Notify invokes one Update handler per
\* Add call, in the order of the Add calls; a listener added k times is
\* invoked k times.
C1_OncePerRegistration == (Called("Notify") /\ OnlyAdds) => Invoked = Registered

C1_Witness ==
    /\ Called("Notify")
    /\ OnlyAdds
    /\ Len(Registered) = 3
    /\ Cardinality(Range(Registered)) = 2
    /\ Len(calls) = 3

-----------------------------------------------------------------------------
(* C2 *)

\* C2: after ChangeStatus(s), for any s, the status is s, the call went
\* through exactly one Notify round, and every Update of the round saw the
\* status s, so the status was written before the round.
C2_ChangeStatusSetsAndNotifiesOnce ==
    Called("ChangeStatus") =>
        /\ driver.status = LastCall.arg
        /\ Rounds = 1
        /\ \A i \in 1..Len(calls) : calls[i].status = LastCall.arg

\* ChangeStatus("InvalidStatus") called twice in a row with a listener
\* registered: a value outside the allowed set, equal to the current status.
C2_Witness ==
    /\ Len(history) >= 3
    /\ LastCall = Call("ChangeStatus", "InvalidStatus")
    /\ history[Len(history) - 1] = LastCall
    /\ Len(calls) >= 1
    /\ driver.status = "InvalidStatus"

-----------------------------------------------------------------------------
(* C3 *)

\* Remove(o) takes exactly one o out of the collection when there is one,
\* and leaves the collection as it is when there is none.
RemovesOne(o) ==
    LET before == driver.listOfObservers
        after == driver'.listOfObservers
    IN  IF Count(before, o) > 0
        THEN /\ Len(after) = Len(before) - 1
             /\ Count(after, o) = Count(before, o) - 1
             /\ \A p \in Observers \ {o} : Count(after, p) = Count(before, p)
        ELSE after = before

\* The step is a Remove(o) that directly follows a Remove(o).
SecondRemove(o) == Called("Remove") /\ LastCall.arg = o /\ Calls(Call("Remove", o))

\* C3, as stated: Remove removes exactly one matching identity, and a second
\* Remove of the same listener leaves the collection unchanged.
C3_SecondRemoveNoOp ==
    [][\A o \in Observers :
          /\ Calls(Call("Remove", o)) => RemovesOne(o)
          /\ SecondRemove(o) => driver'.listOfObservers = driver.listOfObservers]_vars

\* C3, amended: Remove removes exactly one matching identity when there is
\* one and nothing otherwise; a second Remove of the same listener leaves
\* the collection unchanged when the first left no occurrence of it, and
\* removes one more occurrence when the listener had been added repeatedly.
C3_RemoveOnePerCall ==
    [][\A o \in Observers :
          /\ Calls(Call("Remove", o)) => RemovesOne(o)
          /\ SecondRemove(o) =>
                IF Count(driver.listOfObservers, o) = 0
                THEN driver'.listOfObservers = driver.listOfObservers
                ELSE Count(driver'.listOfObservers, o)
                         = Count(driver.listOfObservers, o) - 1]_vars

\* Add(manager), Add(dispatch), Remove(manager), Remove(manager).
C3_Witness ==
    /\ history = <<Call("Add", manager), Call("Add", dispatch),
                   Call("Remove", manager), Call("Remove", manager)>>
    /\ driver.listOfObservers = <<dispatch>>

-----------------------------------------------------------------------------
(* C4 *)

\* C4: in the demo program the driver's status is always one of the
\* statuses Available, En Route, Stopped, Delivered.
C4_StatusAllowed == driver.status \in {"Available", "En Route", "Stopped", "Delivered"}

\* The status was changed and a line outside the set was then typed.
C4_Witness ==
    /\ driver.status = "En Route"
    /\ input.newStatus = "InvalidStatus"
    /\ pc = "AwaitingContinue"

-----------------------------------------------------------------------------
(* C5 *)

\* The line typed at the new-status prompt fails the validation: it is not
\* one of the allowed statuses other than the current one.
FailsValidation(line) == line \notin (Range(statuses) \ {driver.status})

\* C5: a line that fails the validation at the new-status prompt writes the
\* invalid-status message, asks the continuation question again, changes
\* neither the status nor the listener collection and invokes no Update.
C5_InvalidStatusReprompts ==
    [][(pc = "AwaitingNewStatus" /\ ConsumesLine /\ FailsValidation(input'.newStatus)) =>
          /\ Includes(console', InvalidStatusMessage)
          /\ Includes(console', ContinueQuery)
          /\ ~Includes(console', NewStatusQuery)
          /\ pc' = "AwaitingContinue"
          /\ prompts' = prompts + 1
          /\ driver' = driver
          /\ calls' = <<>>
          /\ Count(console', UpdateHeader) = 0]_vars

C5_Witness ==
    /\ pc = "AwaitingContinue"
    /\ input.newStatus = "InvalidStatus"
    /\ Includes(console, InvalidStatusMessage)
    /\ driver.status = "Stopped"

-----------------------------------------------------------------------------
(* C6 *)

\* no and n in every letter case.
NoAnswers ==
    { <<"n", "o">>, <<"N", "o">>, <<"n", "O">>, <<"N", "O">>, <<"n">>, <<"N">> }

\* C6: no or n, in any letter case, at the continuation prompt writes the
\* goodbye message and closes; once closed, nothing happens any more: no
\* question, no line consumed, no Update, no change of status.
C6_NoTerminates ==
    [][/\ (pc = "AwaitingContinue" /\ ConsumesLine /\ input'.answer \in NoAnswers) =>
              /\ pc' = "Closed"
              /\ console' = <<GoodbyeMessage>>
              /\ prompts' = prompts
              /\ calls' = <<>>
              /\ driver' = driver
       /\ pc = "Closed" =>
              /\ pc' = "Closed"
              /\ prompts' = prompts
              /\ lines' = lines
              /\ calls' = calls
              /\ console' = console
              /\ driver' = driver]_vars

C6_Witness ==
    /\ pc = "Closed"
    /\ input.answer = <<"N", "O">>
    /\ console = <<GoodbyeMessage>>
    /\ driver.status = "Delivered"

-----------------------------------------------------------------------------
(* C7 *)

\* C7: every notification round of the demo program belongs to a status of
\* the allowed set that differs from the status before, and the current
\* status typed at the new-status prompt is rejected as invalid.
C7_OnlyRealChanges ==
    [][/\ (Count(console', UpdateHeader) > 0 \/ calls' # <<>>) =>
              /\ driver'.status \in Range(statuses)
              /\ driver'.status # driver.status
              /\ driver'.status = input'.newStatus
              /\ Count(console', UpdateHeader) = 1
       /\ (pc = "AwaitingNewStatus" /\ ConsumesLine /\ input'.newStatus = driver.status) =>
              /\ Includes(console', InvalidStatusMessage)
              /\ calls' = <<>>
              /\ driver' = driver]_vars

\* The status was changed, and then the current status was typed again.
C7_Witness ==
    /\ driver.status = "En Route"
    /\ input.newStatus = "En Route"
    /\ Includes(console, InvalidStatusMessage)

-----------------------------------------------------------------------------
(* C8 *)

\* Every Update of the last handler was for the listener at its place of
\* the collection and saw the status s.
RoundSaw(s) ==
    calls = [i \in 1..Len(driver.listOfObservers) |->
                [observer |-> driver.listOfObservers[i], status |-> s]]

\* C8, as stated: in the round of ChangeStatus(s) every Update sees the
\* status s, the listeners are invoked in registration order, and each
\* listener is invoked once.
C8_EachSeesNewStatusOnce ==
    Called("ChangeStatus") =>
        /\ RoundSaw(LastCall.arg)
        /\ \A o \in Range(Invoked) : Count(Invoked, o) = 1

\* C8, amended: in the round of ChangeStatus(s) every Update sees the status
\* s and the listeners are invoked in registration order, once for each
\* registration: a listener registered k times is invoked k times.
C8_EachSeesNewStatus ==
    Called("ChangeStatus") =>
        /\ RoundSaw(LastCall.arg)
        /\ \A o \in Observers : Count(Invoked, o) = Outstanding(history, o)

\* Two listeners registered on the new Driver, then ChangeStatus("En Route").
C8_Witness ==
    /\ history = <<Call("Add", manager), Call("Add", dispatch),
                   Call("ChangeStatus", "En Route")>>
    /\ calls = <<[observer |-> manager, status |-> "En Route"],
                 [observer |-> dispatch, status |-> "En Route"]>>

-----------------------------------------------------------------------------
(* C9 *)

\* C9, as stated: a listener that was added and then removed gets no Update
\* from a later ChangeStatus.
C9_RemovedGetsNone ==
    Called("ChangeStatus") =>
        \A o \in Observers : Unregistered(o) => Count(Invoked, o) = 0

\* C9, amended: a listener that was added and then removed gets no Update
\* from a later ChangeStatus once each of its registrations is removed;
\* while registrations are left, it gets one Update for each.
C9_RemovedGetsNoneOnceAllRemoved ==
    Called("ChangeStatus") =>
        \A o \in Observers :
            Unregistered(o) =>
                /\ Count(Invoked, o) = Outstanding(history, o)
                /\ Outstanding(history, o) = 0 => o \notin Range(Invoked)

\* A listener added and removed, another still registered and notified.
C9_Witness ==
    /\ Called("ChangeStatus")
    /\ Unregistered(manager)
    /\ Outstanding(history, manager) = 0
    /\ Invoked = <<dispatch>>

-----------------------------------------------------------------------------
(* C10 *)

\* C10: Add(o) puts o at the end of the collection, also when o is in it
\* already, keeps the entries before it as they are, leaves the status as it
\* is and notifies nobody.
C10_AddAppends ==
    [][\A o \in Observers :
          Calls(Call("Add", o)) =>
              LET before == driver.listOfObservers
                  after == driver'.listOfObservers
              IN  /\ Len(after) = Len(before) + 1
                  /\ after[Len(after)] = o
                  /\ SubSeq(after, 1, Len(before)) = before
                  /\ driver'.status = driver.status
                  /\ driver'.name = driver.name
                  /\ calls' = <<>>
                  /\ Count(console', UpdateHeader) = 0]_vars

\* Add of a listener that was registered already.
C10_Witness ==
    /\ Called("Add")
    /\ Count(driver.listOfObservers, LastCall.arg) = 2
    /\ Len(driver.listOfObservers) = 3

-----------------------------------------------------------------------------
(* C11 *)

\* list without its entry at place k.
Without(list, k) == SubSeq(list, 1, k - 1) \o SubSeq(list, k + 1, Len(list))

\* C11: Remove(o) takes out the earliest o of the collection and nothing
\* else, the other entries (later duplicates of o too) keeping their order;
\* without an o in it the collection stays as it is; in both cases the
\* status stays and nobody is notified.
C11_RemoveFirstOnly ==
    [][\A o \in Observers :
          Calls(Call("Remove", o)) =>
              LET before == driver.listOfObservers
                  after == driver'.listOfObservers
                  found == {i \in 1..Len(before) : before[i] = o}
              IN  /\ found = {} => after = before
                  /\ found # {} =>
                        after = Without(before, CHOOSE i \in found : \A j \in found : i <= j)
                  /\ driver'.status = driver.status
                  /\ driver'.name = driver.name
                  /\ calls' = <<>>
                  /\ Count(console', UpdateHeader) = 0]_vars

\* Remove(manager) with manager registered before and after dispatch: the
\* later duplicate stays, behind dispatch.
C11_Witness ==
    /\ history = <<Call("Add", manager), Call("Add", dispatch),
                   Call("Add", manager), Call("Remove", manager)>>
    /\ driver.listOfObservers = <<dispatch, manager>>

-----------------------------------------------------------------------------
(* C12 *)

\* The places of the collection that hold a listener whose Update throws.
Failing == {i \in 1..Len(driver.listOfObservers) :
               ClassOf(driver.listOfObservers[i]) = "IDriverObserver"}

\* C12: when the Update of the k-th listener throws in the round of
\* ChangeStatus(s), the exception leaves Notify and ChangeStatus, the
\* listeners up to the k-th have been invoked and none after it, and the
\* status is s; without a listener that throws, nothing is thrown.
C12_FailureAbortsRound ==
    Called("ChangeStatus") =>
        /\ driver.status = LastCall.arg
        /\ Rounds = 1
        /\ Failing = {} => (~error /\ Invoked = driver.listOfObservers)
        /\ Failing # {} =>
              LET k == CHOOSE i \in Failing : \A j \in Failing : i <= j
              IN  /\ error
                  /\ Invoked = SubSeq(driver.listOfObservers, 1, k)
                  /\ \A i \in 1..Len(calls) : calls[i].status = LastCall.arg

\* manager, the throwing listener and dispatch registered in this order,
\* then ChangeStatus("En Route"): manager and the throwing listener were
\* invoked, dispatch was not.
C12_Witness ==
    /\ history = <<Call("Add", manager), Call("Add", baseObserver),
                   Call("Add", dispatch), Call("ChangeStatus", "En Route")>>
    /\ error
    /\ Invoked = <<manager, baseObserver>>
    /\ driver.status = "En Route"

-----------------------------------------------------------------------------
(* C13 *)

\* C13, as stated: the round of ChangeStatus invokes every listener that is
\* in the collection when ChangeStatus is called, once for each of its
\* places and in order, also when an Update calls Remove or Add on the
\* Driver during the round.
\* (A listener that an Update adds during the round may be invoked after
\* them.)
C13_RoundCoversCollectionAtCall ==
    [][\A s \in LibStatuses :
          Calls(Call("ChangeStatus", s)) =>
              /\ Len(calls') >= Len(driver.listOfObservers)
              /\ [i \in 1..Len(driver.listOfObservers) |-> calls'[i].observer]
                     = driver.listOfObservers]_vars

-----------------------------------------------------------------------------
(* C14 *)

\* yes and y in every letter case.
YesAnswers ==
    { <<a, b, c>> : a \in {"y", "Y"}, b \in {"e", "E"}, c \in {"s", "S"} }
        \cup { <<"y">>, <<"Y">> }

\* C14: an answer at the continuation prompt that is none of yes, y, no, n
\* in any letter case writes the reprompt message and asks the continuation
\* question again; the status and the listener collection stay, no Update
\* is invoked and the loop goes on.
C14_UnrecognizedReprompts ==
    [][(/\ pc = "AwaitingContinue"
        /\ ConsumesLine
        /\ input'.answer \notin (YesAnswers \cup NoAnswers)) =>
          /\ Includes(console', PleaseAnswerMessage)
          /\ Includes(console', ContinueQuery)
          /\ ~Includes(console', GoodbyeMessage)
          /\ pc' = "AwaitingContinue"
          /\ prompts' = prompts + 1
          /\ driver' = driver
          /\ calls' = <<>>
          /\ Count(console', UpdateHeader) = 0]_vars

\* "yes " with a blank behind it, typed after a status change.
C14_Witness ==
    /\ pc = "AwaitingContinue"
    /\ input.answer = <<"y", "e", "s", " ">>
    /\ Includes(console, PleaseAnswerMessage)
    /\ driver.status = "Stopped"

-----------------------------------------------------------------------------
(* C15 *)

\* A question is pending.
Awaiting == {"AwaitingContinue", "AwaitingNewStatus"}

\* The steps of the two-state machine: a line at the new-status prompt,
\* accepted or not, leads to the continuation prompt; a line at the
\* continuation prompt leads to the new-status prompt on yes, to the end on
\* no and to the continuation prompt otherwise. So the continuation prompt
\* is back after at most two lines, and no at the continuation prompt ends
\* the loop at once.
TwoStateMachine ==
    /\ pc \in Awaiting \cup {"Closed", "InputEnded"}
    /\ (pc = "AwaitingNewStatus" /\ ConsumesLine) => pc' = "AwaitingContinue"
    /\ (pc = "AwaitingContinue" /\ ConsumesLine) =>
          pc' = IF input'.answer \in YesAnswers THEN "AwaitingNewStatus"
                ELSE IF input'.answer \in NoAnswers THEN "Closed"
                ELSE "AwaitingContinue"
    /\ ConsumesLine => pc \in Awaiting

\* The step is the answer no or n at the continuation prompt.
AnswersNo == pc = "AwaitingContinue" /\ ConsumesLine /\ input'.answer \in NoAnswers

\* C15, as stated: the loop is the two-state machine, and it ends only by
\* the answer no or n at the continuation prompt.
C15_EndsOnlyOnNo ==
    [][/\ TwoStateMachine
       /\ (pc \in Awaiting /\ pc' \notin Awaiting) => AnswersNo]_vars

\* C15, amended: the loop is the two-state machine, and it ends only by the
\* answer no or n at the continuation prompt or, at either prompt, by the
\* end of the input, which consumes no line and writes no goodbye message.
C15_EndsOnNoOrInputEnd ==
    [][/\ TwoStateMachine
       /\ (pc \in Awaiting /\ pc' \notin Awaiting) =>
              \/ AnswersNo /\ pc' = "Closed" /\ Includes(console', GoodbyeMessage)
              \/ /\ pc' = "InputEnded"
                 /\ lines' = lines
                 /\ ~Includes(console', GoodbyeMessage)
                 /\ driver' = driver
       /\ pc \notin Awaiting => pc' = pc]_vars

\* The input ended at the new-status prompt, after a rejected status and a
\* second yes.
C15_Witness ==
    /\ pc = "InputEnded"
    /\ input.answer \in YesAnswers
    /\ lines = 3

-----------------------------------------------------------------------------
(* C16 *)

\* The lines that the three listeners of the program write for status s.
ThreeUpdates(s) ==
    << Line("Driver Manager", <<"Rebecca", DriverName, s>>),
       Line("Driver Manager", <<"Higgins", DriverName, s>>),
       Line("Dispatch notified", <<DriverName, s>>) >>

-----------------------------------------------------------------------------
(* C17 *)

\* The questions asked and not yet answered.
Unanswered == prompts - lines

\* The places of out that hold the query of a question.
Queries(out) == {i \in 1..Len(out) : out[i] \in {ContinueQuery, NewStatusQuery}}

\* The places of out written by a notification round.
RoundLines(out) ==
    {i \in 1..Len(out) :
        out[i].text \in {UpdateHeader.text, NotifyHeader.text,
                         "Driver Manager", "Dispatch notified"}}

\* C17: one question is outstanding while the loop runs (it stays
\* unanswered when the input ends) and none after the loop has closed; a line is consumed only by the one pending callback; a
\* question is asked only by the callback that consumes a line, one at
\* most; and the notification round of a callback is complete before the
\* callback asks the next question.
C17_OnePromptOutstanding ==
    [][/\ Unanswered = (IF pc = "Closed" THEN 0 ELSE 1)
       /\ prompts' - lines' = (IF pc' = "Closed" THEN 0 ELSE 1)
       /\ ConsumesLine => pc \in Awaiting
       /\ lines' \in {lines, lines + 1}
       /\ prompts' # prompts => (ConsumesLine /\ prompts' = prompts + 1)
       /\ Cardinality(Queries(console')) = prompts' - prompts
       /\ RoundLines(console') # {} =>
              /\ Len(calls') = Len(driver'.listOfObservers)
              /\ Cardinality(RoundLines(console')) = 2 + Len(calls')
              /\ \A i \in RoundLines(console'), q \in Queries(console') : i < q]_vars

\* An accepted status change, with the next question asked after its round.
C17_Witness ==
    /\ pc = "AwaitingContinue"
    /\ Rounds = 1
    /\ Len(calls) = 3
    /\ prompts = 3
    /\ lines = 2
    /\ console[Len(console)] = ContinueQuery

-----------------------------------------------------------------------------
(* C18 *)

\* C18: on every sequence of input lines the JavaScript program and the
\* TypeScript program are in the same prompt state, with the same driver
\* status and listener collection, after the same output and the same
\* Update invocations, and have ended or crashed alike.
C18_SameBehaviour ==
    /\ ts.pc = pc
    /\ ts.driver = driver
    /\ ts.console = console
    /\ ts.calls = calls
    /\ ts.availableStatuses = availableStatuses
    /\ ts.prompts = prompts
    /\ ts.error = error

\* Both programs have gone through two status changes.
C18_Witness ==
    /\ lines = 4
    /\ ts.driver.status = "Stopped"
    /\ Len(ts.calls) = 3
    /\ Len(calls) = 3
    /\ pc = "AwaitingContinue"

=============================================================================
